---- MODULE Spec2Model ----
(***************************************************************************)
(* Model of the numeric core of LogisticMapVisualizer (src/main.py and     *)
(* src/finished_logistics_map.py): logistic_map, the cobweb construction   *)
(* of plot_cobweb, generate_bifurcation_data, and the fixed-point          *)
(* computations of plot_stability and analyze_parameter_regimes.           *)
(*                                                                         *)
(* Python floats are modelled in two ways.  Short orbits are computed in   *)
(* exact arithmetic, on rationals <<n, d>> (d > 0, lowest terms), with     *)
(* inputs chosen so that every numerator and denominator stays inside      *)
(* TLC's 32-bit integers.  Long orbits, whose exact values outgrow the     *)
(* integers, are computed in binary floating point <<"f", m, e>> = m * 2^e *)
(* with a significand of Precision bits, rounded to nearest, ties to even, *)
(* as IEEE 754 does with 53 bits.                                          *)
(***************************************************************************)
EXTENDS Integers, Sequences, FiniteSets, TLC

----------------------------------------------------------------------------
(* Exact rational arithmetic standing for Python's float operators.        *)

Abs(n) == IF n < 0 THEN -n ELSE n

RECURSIVE GCD(_, _)
GCD(m, n) == IF n = 0 THEN m ELSE GCD(n, m % n)

Rat(n, d) ==
    LET g == GCD(Abs(n), Abs(d))
        s == IF d < 0 THEN -1 ELSE 1
    IN  <<(s * n) \div g, (s * d) \div g>>

Zero == Rat(0, 1)
One  == Rat(1, 1)

RAdd(p, q) == Rat(p[1] * q[2] + q[1] * p[2], p[2] * q[2])
RSub(p, q) == Rat(p[1] * q[2] - q[1] * p[2], p[2] * q[2])
RMul(p, q) == Rat(p[1] * q[1], p[2] * q[2])
RDiv(p, q) == Rat(p[1] * q[2], p[2] * q[1])
\* n1/d1 < n2/d2 for d1, d2 > 0, by whole parts and then by the reciprocals
\* of the fractional parts, so that no product is formed
RECURSIVE Less(_, _, _, _)
Less(n1, d1, n2, d2) ==
    LET w1 == n1 \div d1
        w2 == n2 \div d2
        r1 == n1 - w1 * d1
        r2 == n2 - w2 * d2
    IN  IF w1 # w2 THEN w1 < w2
        ELSE IF r2 = 0 THEN FALSE
        ELSE IF r1 = 0 THEN TRUE
        ELSE Less(d2, r2, d1, r1)

RLt(p, q)  == Less(p[1], p[2], q[1], q[2])
RLe(p, q)  == ~RLt(q, p)

----------------------------------------------------------------------------
(* Binary floating point standing for Python's float operators.            *)

\* bits of the significand
Precision == 10

RECURSIVE Pow2(_)
Pow2(n) == IF n = 0 THEN 1 ELSE 2 * Pow2(n - 1)

RECURSIVE BitLength(_)
BitLength(n) == IF n = 0 THEN 0 ELSE 1 + BitLength(n \div 2)

Float(m, e) == <<"f", m, e>>
FZero == Float(0, 0)

\* the float nearest to m * 2^e, ties to even; the significand of a float
\* other than 0 has exactly Precision bits
FRound(m, e) ==
    IF m = 0 THEN FZero
    ELSE LET mag  == Abs(m)
             sgn  == IF m < 0 THEN -1 ELSE 1
             bits == BitLength(mag)
         IN  IF bits <= Precision
             THEN Float(sgn * mag * Pow2(Precision - bits),
                        e - (Precision - bits))
             ELSE LET s    == bits - Precision
                      q    == mag \div Pow2(s)
                      r    == mag % Pow2(s)
                      half == Pow2(s - 1)
                      up   == r > half \/ (r = half /\ q % 2 = 1)
                      q1   == IF up THEN q + 1 ELSE q
                  IN  IF q1 = Pow2(Precision)
                      THEN Float(sgn * Pow2(Precision - 1), e + s + 1)
                      ELSE Float(sgn * q1, e + s)

FInt(n) == FRound(n, 0)

FMul(p, q) == FRound(p[2] * q[2], p[3] + q[3])

\* p + q: the operand of smaller exponent is aligned exactly when it is
\* within Precision + 2 binary places of the other; beyond that it is less
\* than a quarter of the other's last place and the sum rounds to the other
FAdd(p, q) ==
    IF p[2] = 0 THEN q
    ELSE IF q[2] = 0 THEN p
    ELSE LET hi == IF p[3] >= q[3] THEN p ELSE q
             lo == IF p[3] >= q[3] THEN q ELSE p
             d  == hi[3] - lo[3]
         IN  IF d > Precision + 2 THEN hi
             ELSE FRound(hi[2] * Pow2(d) + lo[2], lo[3])

FSub(p, q) == FAdd(p, Float(-q[2], q[3]))

\* p / q: the quotient to Precision + 2 places and a sticky last place
FDiv(p, q) ==
    IF p[2] = 0 THEN FZero
    ELSE LET sgn == IF (p[2] < 0) = (q[2] < 0) THEN 1 ELSE -1
             num == Abs(p[2]) * Pow2(Precision + 2)
             den == Abs(q[2])
             quo == num \div den
             rem == num % den
         IN  FRound(sgn * (2 * quo + (IF rem = 0 THEN 0 ELSE 1)),
                    p[3] - q[3] - (Precision + 2) - 1)

FLt(p, q) ==
    IF p[2] = 0 \/ q[2] = 0 \/ (p[2] < 0) # (q[2] < 0) THEN p[2] < q[2]
    ELSE IF p[2] > 0
         THEN p[3] < q[3] \/ (p[3] = q[3] /\ p[2] < q[2])
         ELSE p[3] > q[3] \/ (p[3] = q[3] /\ p[2] < q[2])

\* the float of a decimal literal n/d
FromRat(n, d) == FDiv(FInt(n), FInt(d))

\* round(v * 10^4) for a float 0 <= v < 2^10: the digits printed by
\* f"{v:.4f}"
Fixed4(v) ==
    LET scaled == v[2] * 10000
    IN  IF v[3] >= 0 THEN scaled * Pow2(v[3])
        ELSE IF -v[3] > 30 THEN 0
        ELSE LET q == scaled \div Pow2(-v[3])
                 r == scaled % Pow2(-v[3])
                 half == Pow2(-v[3] - 1)
             IN  IF r > half \/ (r = half /\ q % 2 = 1) THEN q + 1 ELSE q

----------------------------------------------------------------------------
(* The operators of Python on either kind of number.                       *)

IsFloat(v) == Len(v) = 3

\* the integer n as a number of the kind of v
Num(n, v) == IF IsFloat(v) THEN FInt(n) ELSE Rat(n, 1)

Add(p, q) == IF IsFloat(p) THEN FAdd(p, q) ELSE RAdd(p, q)
Sub(p, q) == IF IsFloat(p) THEN FSub(p, q) ELSE RSub(p, q)
Mul(p, q) == IF IsFloat(p) THEN FMul(p, q) ELSE RMul(p, q)
Div(p, q) == IF IsFloat(p) THEN FDiv(p, q) ELSE RDiv(p, q)
Lt(p, q)  == IF IsFloat(p) THEN FLt(p, q) ELSE RLt(p, q)
Le(p, q)  == ~Lt(q, p)

----------------------------------------------------------------------------
(* Bounds of the model.                                                    *)

\* n_iterations and n_transient of a sweep range over 0..MaxIterations
MaxIterations == 2
\* n_iter of a cobweb call ranges over 0..MaxIter
MaxIter == 2
\* time.time() returns a value in 0..MaxClock
MaxClock == 1
\* most workers that share the samples of one sweep
MaxWorkers == 2

----------------------------------------------------------------------------
(* The numeric core.                                                       *)

\* faulty variant: a * x * (1 + x)
LogisticMapGrowth(x, a) == Mul(Mul(a, x), Add(Num(1, x), x))

\* logistic_map(x, a) = a * x * (1 - x), evaluated left to right
LogisticMap(x, a) == Mul(Mul(a, x), Sub(Num(1, x), x))

\* np.linspace(start, stop, num): num evenly spaced samples, both endpoints
\* included; a single sample is the start, and no sample for num = 0
Linspace(start, stop, num) ==
    IF num = 0 THEN <<>>
    ELSE IF num = 1 THEN <<start>>
    ELSE LET step == Div(Sub(stop, start), Num(num - 1, start))
         IN  [j \in 1..num |->
                IF j = num THEN stop
                ELSE Add(Mul(Num(j - 1, start), step), start)]

\* the value printed by f"{progress:.1f}" for progress = (i / n_a) * 100,
\* in tenths of a percent (rounded to the nearest tenth)
ProgressTenths(i, n_a) == (2000 * i + n_a) \div (2 * n_a)

----------------------------------------------------------------------------
(* Inputs.                                                                 *)

\* a_range arguments of a sweep
ARanges == { <<Rat(3, 1), Rat(3, 1)>>,
             <<Rat(0, 1), Rat(19, 4)>> }
\* n_a arguments of a sweep; 20 is the least count with n_a // 20 > 0
NaValues == {0, 1, 2, 20}
\* x0 arguments of a sweep
SweepSeeds == { Rat(1, 2), Rat(1, 4) }

\* the sweep a_range = (3.0, 3.0), n_a = 1, x0 = 0.5, n_iterations = 4,
\* n_transient = 2
SingleSampleCall == [a_range |-> <<Rat(3, 1), Rat(3, 1)>>, n_a |-> 1,
                     x0 |-> Rat(1, 2), n_iterations |-> 4, n_transient |-> 2]

\* sweeps in floating point: the 100th iterate of 0.5 under a = 0.5, and
\* the orbits of 0.9 under twenty parameters from 0.0 to 1.0
HundredthCall == [a_range |-> <<FromRat(1, 2), FromRat(1, 2)>>, n_a |-> 20,
                  x0 |-> FromRat(1, 2), n_iterations |-> 100,
                  n_transient |-> 99]
UnitCall == [a_range |-> <<FInt(0), FInt(1)>>, n_a |-> 20,
             x0 |-> FromRat(9, 10), n_iterations |-> 12, n_transient |-> 0]

\* a sweep whose progress is printed for every second sample
FortyCall == [a_range |-> <<Rat(3, 1), Rat(3, 1)>>, n_a |-> 40,
              x0 |-> Rat(1, 2), n_iterations |-> 2, n_transient |-> 1]

SweepArgs ==
    [a_range : ARanges, n_a : NaValues, x0 : SweepSeeds,
     n_iterations : 0..MaxIterations, n_transient : 0..MaxIterations]
    \cup {SingleSampleCall, HundredthCall, UnitCall, FortyCall}

\* arguments of a cobweb call: a grid, and a = 5.0, x0 = 0.9, n_iter = 10 on
\* [0, 1], whose orbit leaves the range at the second iteration
CobwebAs     == { Rat(1, 2), Rat(1, 1), Rat(2, 1), Rat(3, 1), Rat(4, 1),
                  Rat(5, 1) }
CobwebSeeds  == { Rat(0, 1), Rat(1, 4), Rat(1, 2), Rat(1, 1), Rat(3, 2) }
CobwebRanges == { <<Rat(0, 1), Rat(1, 1)>>,
                  <<Rat(1, 2), Rat(1, 1)>>,
                  <<Rat(-1, 1), Rat(2, 1)>> }
EscapeCall == [a |-> Rat(5, 1), x0 |-> Rat(9, 10), n_iter |-> 10,
               x_range |-> <<Rat(0, 1), Rat(1, 1)>>]

\* cobwebs in floating point on [0, 1]: eight iterations from 0.1 under
\* a = 3.7, a parameter of main(), and under a = 4.0
ChaoticCall == [a |-> FromRat(37, 10), x0 |-> FromRat(1, 10), n_iter |-> 8,
                x_range |-> <<FInt(0), FInt(1)>>]
FullCall    == [a |-> FInt(4), x0 |-> FromRat(1, 10), n_iter |-> 8,
                x_range |-> <<FInt(0), FInt(1)>>]

CobwebArgs ==
    [a : CobwebAs, x0 : CobwebSeeds, n_iter : 0..MaxIter,
     x_range : CobwebRanges] \cup {EscapeCall, ChaoticCall, FullCall}

NoCobweb == [a |-> Zero, x0 |-> Zero, n_iter |-> 0, x_range |-> <<Zero, Zero>>]

\* a and x_range arguments of plot_stability
StabilityAs == { Rat(-1, 1), Rat(0, 1), Rat(1, 2), Rat(1, 1), Rat(3, 2),
                 Rat(5, 2), Rat(4, 1) }
StabilityRanges == { <<Rat(0, 1), Rat(1, 1)>>, <<Rat(0, 1), Rat(1, 2)>> }

\* the parameters of the regimes list of analyze_parameter_regimes: 0.5, 1.5,
\* 2.8, 3.1, 3.5, 3.7, 3.83 and 4.0
Regimes == << Rat(1, 2), Rat(3, 2), Rat(14, 5), Rat(31, 10), Rat(7, 2),
              Rat(37, 10), Rat(383, 100), Rat(4, 1) >>

\* for i in range(10) of analyze_parameter_regimes
AnalysisIterations == 10
\* iterations[:6] of analyze_parameter_regimes
AnalysisPrinted == 6

NoArgs == [a_range |-> <<Zero, Zero>>, n_a |-> 0, x0 |-> Zero,
           n_iterations |-> 0, n_transient |-> 0]
NoCall == [args |-> NoArgs, outcome |-> "none", a |-> <<>>, x |-> <<>>]

----------------------------------------------------------------------------
(* State.  Figure, axes and label calls are rendering and are not part of  *)
(* the state; what a call hands to the renderer is kept in plotted.        *)

VARIABLES
    pc,             \* position of the running call, "idle" between calls
    self,           \* the visualizer's fields set by __init__
    args,           \* arguments of the running sweep call
    start_time,     \* time.time() at the start of the sweep
    stdout,         \* progress lines printed by the running sweep
    a_values,       \* np.linspace(a_range[0], a_range[1], n_a)
    i,              \* index of enumerate(a_values)
    k,              \* iterations done by the running inner loop
    x,              \* current iterate of the sweep
    bifurcation_a,  \* recorded parameter values
    bifurcation_x,  \* recorded iterate values
    outcome,        \* "none", "returned" or the exception raised
    last,           \* arguments and result of the call completed last, when
                    \* it was a sweep
    prev,           \* the sweep call completed just before the running one,
                    \* kept when it had the same arguments
    cargs,          \* arguments of the running plot_cobweb call
    x_n,            \* current iterate of the cobweb
    cobweb_x,       \* x coordinates of the cobweb points
    cobweb_y,       \* y coordinates of the cobweb points
    ci,             \* iterations of the cobweb loop completed
    sargs,          \* arguments of the running plot_stability call
    fixed_points,   \* fixed points derived by the running call
    regime,         \* regimes of analyze_parameter_regimes done
    iterations,     \* the iterations list of analyze_parameter_regimes
    plotted,        \* points handed to the renderer by the running call
    sched,          \* how the samples of a sweep are shared among workers
    tpc,            \* position of each worker in the loop body
    ti,             \* samples of its share each worker has completed
    tx,             \* each worker's own x
    tstdout,        \* progress lines printed by the workers
    res_a,          \* parameter values recorded for each sample
    res_x,          \* iterate values recorded for each sample
    joined          \* the per-sample results put together

sweepLocals  == <<args, start_time, stdout, a_values, i, k, x,
                  bifurcation_a, bifurcation_x, outcome>>
cobwebLocals == <<cargs, x_n, cobweb_x, cobweb_y, ci>>
fixedLocals  == <<sargs, fixed_points, regime, iterations>>
taskLocals   == <<sched, tpc, ti, tx, tstdout, res_a, res_x, joined>>

vars == <<pc, self, sweepLocals, last, prev, cobwebLocals, fixedLocals,
          plotted, taskLocals>>

NoStability == [a |-> Zero, x_range |-> <<Zero, Zero>>]

NoSched == [workers |-> 0, blocked |-> FALSE, down |-> FALSE]
NoJoin  == [outcome |-> "none", a |-> <<>>, x |-> <<>>]

Init ==
    /\ pc = "idle"
    /\ self = [fig_size |-> <<12, 8>>, dpi |-> 100]
    /\ args = NoArgs
    /\ start_time = 0
    /\ stdout = <<>>
    /\ a_values = <<>>
    /\ i = 0
    /\ k = 0
    /\ x = Zero
    /\ bifurcation_a = <<>>
    /\ bifurcation_x = <<>>
    /\ outcome = "none"
    /\ last = NoCall
    /\ prev = NoCall
    /\ cargs = NoCobweb
    /\ x_n = Zero
    /\ cobweb_x = <<>>
    /\ cobweb_y = <<>>
    /\ ci = 0
    /\ sargs = NoStability
    /\ fixed_points = <<>>
    /\ regime = 0
    /\ iterations = <<>>
    /\ plotted = <<>>
    /\ sched = NoSched
    /\ tpc = [w \in 1..MaxWorkers |-> "off"]
    /\ ti = [w \in 1..MaxWorkers |-> 0]
    /\ tx = [w \in 1..MaxWorkers |-> Zero]
    /\ tstdout = {}
    /\ res_a = <<>>
    /\ res_x = <<>>
    /\ joined = NoJoin

----------------------------------------------------------------------------
(* generate_bifurcation_data                                               *)

\* faulty variant: the two output lists outlive the call (kept on the visualizer
\* instead of being created empty by each call)
CallGenerateBifurcationDataKeepsLists(r, now) ==
    /\ pc = "idle"
    /\ pc' = "bif_for"
    /\ args' = r
    /\ start_time' = now
    /\ stdout' = <<>>
    /\ a_values' = Linspace(r.a_range[1], r.a_range[2], r.n_a)
    /\ bifurcation_a' = last.a
    /\ bifurcation_x' = last.x
    /\ i' = 0
    /\ k' = 0
    /\ x' = Zero
    /\ outcome' = "none"
    /\ prev' = IF last.args = r THEN last ELSE NoCall
    /\ last' = NoCall
    /\ UNCHANGED <<self, taskLocals, cobwebLocals, fixedLocals, plotted>>

\* the call up to the for loop: header prints, start_time, linspace and
\* the two empty output lists
CallGenerateBifurcationData(r, now) ==
    /\ pc = "idle"
    /\ pc' = "bif_for"
    /\ args' = r
    /\ start_time' = now
    /\ stdout' = <<>>
    /\ a_values' = Linspace(r.a_range[1], r.a_range[2], r.n_a)
    /\ bifurcation_a' = <<>>
    /\ bifurcation_x' = <<>>
    /\ i' = 0
    /\ k' = 0
    /\ x' = Zero
    /\ outcome' = "none"
    /\ prev' = IF last.args = r THEN last ELSE NoCall
    /\ last' = NoCall
    /\ UNCHANGED <<self, taskLocals, cobwebLocals, fixedLocals, plotted>>

\* top of the loop body: the progress indicator, then x = x0; the modulus
\* by n_a // 20 raises ZeroDivisionError when n_a < 20
BifFor ==
    /\ pc = "bif_for"
    /\ i < Len(a_values)
    /\ IF args.n_a \div 20 = 0
       THEN /\ pc' = "raised"
            /\ outcome' = "ZeroDivisionError"
            /\ UNCHANGED <<stdout, x, k>>
       ELSE /\ stdout' = IF i % (args.n_a \div 20) = 0
                         THEN Append(stdout, ProgressTenths(i, args.n_a))
                         ELSE stdout
            /\ x' = args.x0
            /\ k' = 0
            /\ pc' = "bif_transient"
            /\ UNCHANGED outcome
    /\ UNCHANGED <<self, taskLocals, args, start_time, a_values, i, bifurcation_a,
                   bifurcation_x, last, prev, cobwebLocals, fixedLocals,
                   plotted>>

\* for _ in range(n_transient): x = logistic_map(x, a)
BifTransient ==
    /\ pc = "bif_transient"
    /\ IF k < args.n_transient
       THEN /\ x' = LogisticMap(x, a_values[i + 1])
            /\ k' = k + 1
            /\ UNCHANGED pc
       ELSE /\ k' = 0
            /\ pc' = "bif_collect"
            /\ UNCHANGED x
    /\ UNCHANGED <<self, taskLocals, args, start_time, stdout, a_values, i,
                   bifurcation_a, bifurcation_x, outcome, last, prev,
                   cobwebLocals, fixedLocals, plotted>>

\* faulty variant: the iterate is recorded before the step instead of after it
BifCollectRecordsFirst ==
    /\ pc = "bif_collect"
    /\ IF k < args.n_iterations - args.n_transient
       THEN /\ x' = LogisticMap(x, a_values[i + 1])
            /\ bifurcation_a' = Append(bifurcation_a, a_values[i + 1])
            /\ bifurcation_x' = Append(bifurcation_x, x)
            /\ k' = k + 1
            /\ UNCHANGED <<pc, i>>
       ELSE /\ i' = i + 1
            /\ k' = 0
            /\ pc' = "bif_for"
            /\ UNCHANGED <<x, bifurcation_a, bifurcation_x>>
    /\ UNCHANGED <<self, taskLocals, args, start_time, stdout, a_values, outcome, last,
                   prev, cobwebLocals, fixedLocals, plotted>>

\* for _ in range(n_iterations - n_transient): iterate and record
BifCollect ==
    /\ pc = "bif_collect"
    /\ IF k < args.n_iterations - args.n_transient
       THEN /\ x' = LogisticMap(x, a_values[i + 1])
            /\ bifurcation_a' = Append(bifurcation_a, a_values[i + 1])
            /\ bifurcation_x' = Append(bifurcation_x, x')
            /\ k' = k + 1
            /\ UNCHANGED <<pc, i>>
       ELSE /\ i' = i + 1
            /\ k' = 0
            /\ pc' = "bif_for"
            /\ UNCHANGED <<x, bifurcation_a, bifurcation_x>>
    /\ UNCHANGED <<self, taskLocals, args, start_time, stdout, a_values, outcome, last,
                   prev, cobwebLocals, fixedLocals, plotted>>

\* after the loop: elapsed time is printed and the two arrays returned
BifReturn(now) ==
    /\ pc = "bif_for"
    /\ i >= Len(a_values)
    /\ pc' = "returned"
    /\ outcome' = "returned"
    /\ stdout' = Append(stdout, now - start_time)
    /\ UNCHANGED <<self, taskLocals, args, start_time, a_values, i, k, x, bifurcation_a,
                   bifurcation_x, last, prev, cobwebLocals, fixedLocals,
                   plotted>>

----------------------------------------------------------------------------
(* plot_cobweb                                                             *)

\* faulty variant: the first point is put on the lower bound of x_range
CallPlotCobwebFromLo(c) ==
    /\ pc = "idle"
    /\ pc' = "cob_for"
    /\ cargs' = c
    /\ x_n' = c.x0
    /\ cobweb_x' = <<c.x0, c.x0>>
    /\ cobweb_y' = <<c.x_range[1], c.x0>>
    /\ ci' = 0
    /\ last' = NoCall
    /\ UNCHANGED <<self, taskLocals, sweepLocals, prev, fixedLocals, plotted>>

\* the call up to the for loop: x_n = x0 and the two starting points
CallPlotCobweb(c) ==
    /\ pc = "idle"
    /\ pc' = "cob_for"
    /\ cargs' = c
    /\ x_n' = c.x0
    /\ cobweb_x' = <<c.x0, c.x0>>
    /\ cobweb_y' = <<Zero, c.x0>>
    /\ ci' = 0
    /\ last' = NoCall
    /\ UNCHANGED <<self, taskLocals, sweepLocals, prev, fixedLocals, plotted>>

\* faulty variant: the bounds of x_range count as outside
EscapedClosed(v, x_range) == Le(v, x_range[1]) \/ Le(x_range[2], v)

\* x_n < x_range[0] or x_n > x_range[1]
Escaped(v, x_range) == Lt(v, x_range[1]) \/ Lt(x_range[2], v)

\* faulty variant: the loop has no break
CobForNoBreak ==
    /\ pc = "cob_for"
    /\ ci < cargs.n_iter
    /\ LET x_next == LogisticMap(x_n, cargs.a)
       IN  /\ cobweb_x' = cobweb_x \o <<x_n, x_next>>
           /\ cobweb_y' = cobweb_y \o <<x_next, x_next>>
           /\ x_n' = x_next
           /\ ci' = ci + 1
           /\ pc' = "cob_for"
    /\ UNCHANGED <<self, taskLocals, sweepLocals, last, prev, cargs, fixedLocals,
                   plotted>>

\* faulty variant: the range test comes before the two appends, so that the
\* escaping iterate is left out
CobForBreakFirst ==
    /\ pc = "cob_for"
    /\ ci < cargs.n_iter
    /\ LET x_next == LogisticMap(x_n, cargs.a)
       IN  IF Escaped(x_next, cargs.x_range)
           THEN /\ pc' = "cob_plot"
                /\ UNCHANGED <<cobweb_x, cobweb_y, x_n, ci>>
           ELSE /\ cobweb_x' = cobweb_x \o <<x_n, x_next>>
                /\ cobweb_y' = cobweb_y \o <<x_next, x_next>>
                /\ x_n' = x_next
                /\ ci' = ci + 1
                /\ pc' = "cob_for"
    /\ UNCHANGED <<self, taskLocals, sweepLocals, last, prev, cargs, fixedLocals,
                   plotted>>

\* faulty variant: the horizontal endpoint is appended before the vertical one
CobForSwapped ==
    /\ pc = "cob_for"
    /\ ci < cargs.n_iter
    /\ LET x_next == LogisticMap(x_n, cargs.a)
       IN  /\ cobweb_x' = cobweb_x \o <<x_next, x_n>>
           /\ cobweb_y' = cobweb_y \o <<x_next, x_next>>
           /\ x_n' = x_next
           /\ ci' = ci + 1
           /\ pc' = IF Escaped(x_next, cargs.x_range)
                    THEN "cob_plot" ELSE "cob_for"
    /\ UNCHANGED <<self, taskLocals, sweepLocals, last, prev, cargs, fixedLocals,
                   plotted>>

\* one pass of the loop body: two points appended, x_n advanced, and the
\* break when x_n has left x_range
CobFor ==
    /\ pc = "cob_for"
    /\ ci < cargs.n_iter
    /\ LET x_next == LogisticMap(x_n, cargs.a)
       IN  /\ cobweb_x' = cobweb_x \o <<x_n, x_next>>
           /\ cobweb_y' = cobweb_y \o <<x_next, x_next>>
           /\ x_n' = x_next
           /\ ci' = ci + 1
           /\ pc' = IF Escaped(x_next, cargs.x_range)
                    THEN "cob_plot" ELSE "cob_for"
    /\ UNCHANGED <<self, taskLocals, sweepLocals, last, prev, cargs, fixedLocals,
                   plotted>>

\* the loop ends after n_iter passes
CobEnd ==
    /\ pc = "cob_for"
    /\ ci >= cargs.n_iter
    /\ pc' = "cob_plot"
    /\ UNCHANGED <<self, taskLocals, sweepLocals, last, prev, cobwebLocals, fixedLocals,
                   plotted>>

\* ax.plot(cobweb_x, cobweb_y, ...): the trajectory goes to the renderer
CobPlot ==
    /\ pc = "cob_plot"
    /\ pc' = "cob_shown"
    /\ plotted' = [j \in 1..Len(cobweb_x) |-> <<cobweb_x[j], cobweb_y[j]>>]
    /\ UNCHANGED <<self, taskLocals, sweepLocals, last, prev, cobwebLocals, fixedLocals>>

----------------------------------------------------------------------------
(* plot_stability                                                          *)

\* faulty variant: the second fixed point is added for every positive a
CallPlotStabilityPositive(a, x_range) ==
    /\ pc = "idle"
    /\ pc' = "stab_shown"
    /\ sargs' = [a |-> a, x_range |-> x_range]
    /\ LET fps == IF RLt(Zero, a)
                  THEN <<Zero, RDiv(RSub(a, One), a)>>
                  ELSE <<Zero>>
       IN  /\ fixed_points' = fps
           /\ plotted' = SelectSeq([j \in 1..Len(fps) |-> <<fps[j], fps[j]>>],
                            LAMBDA p : RLe(x_range[1], p[1])
                                       /\ RLe(p[1], x_range[2]))
    /\ last' = NoCall
    /\ UNCHANGED <<self, taskLocals, sweepLocals, prev, cobwebLocals, regime, iterations>>

\* fixed_points = [0], plus (a - 1) / a if a > 1; those inside x_range are
\* marked on the plot
CallPlotStability(a, x_range) ==
    /\ pc = "idle"
    /\ pc' = "stab_shown"
    /\ sargs' = [a |-> a, x_range |-> x_range]
    /\ LET fps == IF RLt(One, a)
                  THEN <<Zero, RDiv(RSub(a, One), a)>>
                  ELSE <<Zero>>
       IN  /\ fixed_points' = fps
           /\ plotted' = SelectSeq([j \in 1..Len(fps) |-> <<fps[j], fps[j]>>],
                            LAMBDA p : RLe(x_range[1], p[1])
                                       /\ RLe(p[1], x_range[2]))
    /\ last' = NoCall
    /\ UNCHANGED <<self, taskLocals, sweepLocals, prev, cobwebLocals, regime, iterations>>

----------------------------------------------------------------------------
(* analyze_parameter_regimes.  The fixed points are derived in exact       *)
(* arithmetic; the ten iterations from 0.5 are computed in floating point. *)

\* round(q * 10^4) for a rational q: the digits printed by f"{q:.4f}"
RFixed4(q) ==
    LET n == Abs(q[1]) * 10000
        w == n \div q[2]
        r == n % q[2]
        up == 2 * r > q[2] \/ (2 * r = q[2] /\ w % 2 = 1)
    IN  (IF q[1] < 0 THEN -1 ELSE 1) * (IF up THEN w + 1 ELSE w)

\* the header prints and visualizer = LogisticMapVisualizer()
CallAnalyzeParameterRegimes ==
    /\ pc = "idle"
    /\ pc' = "ana_for"
    /\ regime' = 0
    /\ last' = NoCall
    /\ UNCHANGED <<self, taskLocals, sweepLocals, prev, cobwebLocals, sargs,
                   fixed_points, iterations, plotted>>

\* top of the loop body for one regime: its fixed points are printed, then
\* x = 0.5 and iterations = [x]
AnaFor ==
    /\ pc = "ana_for"
    /\ regime < Len(Regimes)
    /\ LET a == Regimes[regime + 1]
       IN  /\ fixed_points' = IF RLe(a, One) THEN <<Zero>>
                              ELSE <<Zero, RDiv(RSub(a, One), a)>>
           /\ stdout' = Append(stdout,
                            [j \in 1..Len(fixed_points') |->
                                RFixed4(fixed_points'[j])])
    /\ x' = FromRat(1, 2)
    /\ iterations' = <<x'>>
    /\ i' = 0
    /\ pc' = "ana_iter"
    /\ UNCHANGED <<self, taskLocals, args, start_time, a_values, k, bifurcation_a,
                   bifurcation_x, outcome, last, prev, cobwebLocals, sargs,
                   regime, plotted>>

\* for i in range(10): x = logistic_map(x, a), appended to iterations; after
\* the loop the first six values are printed
AnaIter ==
    /\ pc = "ana_iter"
    /\ IF i < AnalysisIterations
       THEN /\ x' = LogisticMap(x, FromRat(Regimes[regime + 1][1],
                                           Regimes[regime + 1][2]))
            /\ iterations' = Append(iterations, x')
            /\ i' = i + 1
            /\ UNCHANGED <<pc, regime, stdout>>
       ELSE /\ stdout' = Append(stdout,
                             [j \in 1..AnalysisPrinted |->
                                 Fixed4(iterations[j])])
            /\ regime' = regime + 1
            /\ pc' = "ana_for"
            /\ UNCHANGED <<x, iterations, i>>
    /\ UNCHANGED <<self, taskLocals, args, start_time, a_values, k, bifurcation_a,
                   bifurcation_x, outcome, last, prev, cobwebLocals, sargs,
                   fixed_points, plotted>>

\* the regimes are done
AnaEnd ==
    /\ pc = "ana_for"
    /\ regime >= Len(Regimes)
    /\ pc' = "ana_done"
    /\ UNCHANGED <<self, taskLocals, sweepLocals, last, prev, cobwebLocals, fixedLocals,
                   plotted>>

----------------------------------------------------------------------------
\* the call is over: the caller has the result (or the exception), the
\* locals of the call are gone
Continue ==
    /\ pc \in {"returned", "raised", "cob_shown", "stab_shown", "ana_done"}
    /\ pc' = "idle"
    /\ last' = IF outcome # "none"
               THEN [args |-> args, outcome |-> outcome,
                     a |-> bifurcation_a, x |-> bifurcation_x]
               ELSE last
    /\ args' = NoArgs
    /\ start_time' = 0
    /\ stdout' = <<>>
    /\ a_values' = <<>>
    /\ i' = 0
    /\ k' = 0
    /\ x' = Zero
    /\ bifurcation_a' = <<>>
    /\ bifurcation_x' = <<>>
    /\ outcome' = "none"
    /\ prev' = NoCall
    /\ cargs' = NoCobweb
    /\ x_n' = Zero
    /\ cobweb_x' = <<>>
    /\ cobweb_y' = <<>>
    /\ ci' = 0
    /\ sargs' = NoStability
    /\ fixed_points' = <<>>
    /\ regime' = 0
    /\ iterations' = <<>>
    /\ plotted' = <<>>
    /\ UNCHANGED <<self, taskLocals>>

Next ==
    \/ \E r \in SweepArgs, now \in 0..MaxClock :
            CallGenerateBifurcationData(r, now)
    \/ BifFor
    \/ BifTransient
    \/ BifCollect
    \/ \E now \in 0..MaxClock : BifReturn(now)
    \/ \E c \in CobwebArgs : CallPlotCobweb(c)
    \/ CobFor
    \/ CobEnd
    \/ CobPlot
    \/ \E a \in StabilityAs, x_range \in StabilityRanges :
            CallPlotStability(a, x_range)
    \/ CallAnalyzeParameterRegimes
    \/ AnaFor
    \/ AnaIter
    \/ AnaEnd
    \/ Continue

Spec == Init /\ [][Next]_vars

----------------------------------------------------------------------------
(* Properties of generate_bifurcation_data                                 *)

\* iterate(x0, a, n): n successive applications of the map to x0, as the
\* first n \div 2 of them followed by the others.  A number is a tuple; the
\* test on half has TLC evaluate it before the other applications start,
\* which keeps the evaluation shallow.
RECURSIVE Iterate(_, _, _)
Iterate(x0, a, n) ==
    IF n = 0 THEN x0
    ELSE IF n = 1 THEN LogisticMap(x0, a)
    ELSE LET half == Iterate(x0, a, n \div 2)
         IN  IF Len(half) > 0 THEN Iterate(half, a, n - n \div 2) ELSE half

Max(m, n) == IF m >= n THEN m ELSE n

\* retained iterations per sample, R = n_iterations - n_transient
Retained == args.n_iterations - args.n_transient

SweepOver == pc \in {"returned", "raised"}

\* C1: every sweep call with n_a >= 0 returns two sequences of the same
\* length n_a * max(0, n_iterations - n_transient), and no call is ended by
\* an error (in particular none with n_transient >= n_iterations).
C1_LengthAndNoError ==
    SweepOver =>
        /\ outcome = "returned"
        /\ Len(bifurcation_a) = Len(bifurcation_x)
        /\ Len(bifurcation_x) = args.n_a * Max(0, Retained)

\* C2: a sweep call with n_a >= 1 completes normally: the progress indicator
\* at the top of the loop body never raises.
C2_ProgressNeverRaises ==
    (SweepOver /\ args.n_a >= 1) => outcome = "returned"

\* C3: in the output of a sweep with R = n_iterations - n_transient > 0,
\* position j*R + (k-1) of the parameter sequence holds sample a_j and the
\* same position of the iterate sequence holds the (n_transient + k)-th
\* iterate of x0 under a_j, for every sample j and every k in 1..R.
C3_OutputLayout ==
    (pc = "returned" /\ Retained > 0) =>
        LET samples == Linspace(args.a_range[1], args.a_range[2], args.n_a)
        IN  /\ Len(bifurcation_a) >= args.n_a * Retained
            /\ Len(bifurcation_x) >= args.n_a * Retained
            /\ \A j \in 0..(args.n_a - 1) : \A kk \in 1..Retained :
                 /\ bifurcation_a[j * Retained + kk] = samples[j + 1]
                 /\ bifurcation_x[j * Retained + kk] =
                        Iterate(args.x0, samples[j + 1], args.n_transient + kk)

\* a sweep over several distinct samples has returned, with a discarded
\* transient and more than one retained iterate per sample
C3_Witness ==
    /\ pc = "returned"
    /\ args.n_a >= 20
    /\ args.n_transient >= 1
    /\ Retained >= 1
    /\ args.a_range[1] # args.a_range[2]
    /\ Len(bifurcation_x) = args.n_a * Retained

\* C10: a sweep call that follows a completed sweep call with the same five
\* arguments ends the same way and with the same two output sequences,
\* whatever the clock read and whatever was called earlier.
C10_Deterministic ==
    (SweepOver /\ prev.outcome # "none" /\ prev.args = args) =>
        /\ outcome = prev.outcome
        /\ bifurcation_a = prev.a
        /\ bifurcation_x = prev.x

\* two consecutive sweeps with the same arguments have both returned data,
\* the second one started late and timed with a non-zero elapsed time
C10_Witness ==
    /\ pc = "returned"
    /\ prev.outcome = "returned"
    /\ prev.args = args
    /\ start_time # 0
    /\ stdout[Len(stdout)] # 0
    /\ Len(bifurcation_x) > 0
    /\ bifurcation_x = prev.x

----------------------------------------------------------------------------
(* Properties of the cobweb trajectory of plot_cobweb                      *)

CobwebRunning == pc \in {"cob_for", "cob_plot", "cob_shown"}
CobwebOver    == pc \in {"cob_plot", "cob_shown"}

\* the trajectory as (x, y) points, and the iterations it holds
Point(j)  == <<cobweb_x[j], cobweb_y[j]>>
Points    == Len(cobweb_x)
Completed == (Points - 2) \div 2
\* the iterate recorded by iteration it: the y of its two points
Recorded(it) == cobweb_y[2 * it + 2]

\* C4: the trajectory has 2 + 2k points for some 0 <= k <= n_iter, and fewer
\* than 2 + 2*n_iter exactly when an iterate left [lo, hi] before n_iter
\* iterations were done.
C4_TrajectoryLength ==
    CobwebOver =>
        /\ Len(cobweb_y) = Points
        /\ Points = 2 + 2 * Completed
        /\ 0 <= Completed /\ Completed <= cargs.n_iter
        /\ (Points < 2 + 2 * cargs.n_iter) <=>
              (\E j \in 1..(cargs.n_iter - 1) :
                  Escaped(Iterate(cargs.x0, cargs.a, j), cargs.x_range))

\* a trajectory cut short by an escape, after at least one full iteration
\* that stayed inside
C4_Witness ==
    /\ CobwebOver
    /\ Completed >= 2
    /\ Completed < cargs.n_iter
    /\ Escaped(x_n, cargs.x_range)

\* C5 as stated: the first point is (x0, lo) and the second is (x0, x0).
C5_StartsAtLowerBound ==
    CobwebRunning =>
        /\ Point(1) = <<cargs.x0, cargs.x_range[1]>>
        /\ Point(2) = <<cargs.x0, cargs.x0>>

\* C5 amended: the trajectory starts with the vertical segment from (x0, 0)
\* to (x0, x0), whatever the containment bound is: its first point is
\* (x0, 0) and its second point is (x0, x0).
C5_StartsAtZero ==
    CobwebRunning =>
        /\ Point(1) = <<cargs.x0, Zero>>
        /\ Point(2) = <<cargs.x0, cargs.x0>>

\* a trajectory with an iteration done, for a range whose lower bound and
\* seed are not 0
C5_Witness ==
    /\ CobwebOver
    /\ Completed >= 1
    /\ cargs.x_range[1] # Zero
    /\ cargs.x0 # Zero

\* C6: the loop stops at the first iterate outside [lo, hi]: while the loop
\* runs every recorded iterate is inside, at any time every recorded iterate
\* but the last is inside, a trajectory shorter than n_iter iterations ends
\* with the escaping iterate as its last point (x_next, x_next), and the
\* orbit of a = 5.0, x0 = 0.9 on [0, 1] ends before 10 iterations.
C6_StopsAtEscape ==
    CobwebRunning =>
        /\ \A it \in 1..(Completed - 1) :
              ~Escaped(Recorded(it), cargs.x_range)
        /\ pc = "cob_for" =>
              \A it \in 1..Completed : ~Escaped(Recorded(it), cargs.x_range)
        /\ (CobwebOver /\ Completed < cargs.n_iter) =>
              /\ Escaped(Recorded(Completed), cargs.x_range)
              /\ Point(Points) = <<x_n, x_n>>
              /\ x_n = Iterate(cargs.x0, cargs.a, Completed)
        /\ (CobwebOver /\ cargs = EscapeCall) => Completed < 10

\* the orbit of a = 5.0, x0 = 0.9 on [0, 1] has ended with its second
\* iterate, 99/80, as the last point
C6_Witness ==
    /\ CobwebOver
    /\ cargs = EscapeCall
    /\ Completed = 2
    /\ Point(Points) = <<Rat(99, 80), Rat(99, 80)>>

\* C7: iteration i >= 1 appends (x_{i-1}, x_i) and then (x_i, x_i), where
\* x_i = a * x_{i-1} * (1 - x_{i-1}); every point from the second onward at
\* an odd 0-based index is on the identity line, and consecutive points
\* share their x or their y coordinate.
C7_Staircase ==
    CobwebRunning =>
        /\ \A it \in 1..Completed :
              LET before == Iterate(cargs.x0, cargs.a, it - 1)
                  after  == LogisticMap(before, cargs.a)
              IN  /\ Point(2 * it + 1) = <<before, after>>
                  /\ Point(2 * it + 2) = <<after, after>>
        /\ \A j \in 1..Points :
              (j % 2 = 0) => cobweb_x[j] = cobweb_y[j]
        /\ \A j \in 1..(Points - 1) :
              \/ cobweb_x[j] = cobweb_x[j + 1]
              \/ cobweb_y[j] = cobweb_y[j + 1]

\* a trajectory of two iterations that moved, both in x and in y
C7_Witness ==
    /\ CobwebOver
    /\ Completed >= 2
    /\ Recorded(1) # cargs.x0
    /\ Recorded(2) # Recorded(1)

----------------------------------------------------------------------------
(* Properties of the fixed points                                          *)

FixedPointSet == { fixed_points[j] : j \in 1..Len(fixed_points) }

\* the parameter whose fixed points the running call has derived
Derived    == pc \in {"stab_shown", "ana_iter"}
DerivedFor == IF pc = "stab_shown" THEN sargs.a ELSE Regimes[regime + 1]

\* C8: the fixed points derived for a, by plot_stability and by
\* analyze_parameter_regimes, are exactly {0} when a <= 1 and {0, (a-1)/a}
\* when a > 1, and each of them is mapped to itself by logistic_map in exact
\* arithmetic.
C8_FixedPoints ==
    Derived =>
        /\ RLe(DerivedFor, One) => FixedPointSet = {Zero}
        /\ RLt(One, DerivedFor) =>
              FixedPointSet = {Zero, RDiv(RSub(DerivedFor, One), DerivedFor)}
        /\ \A fp \in FixedPointSet : LogisticMap(fp, DerivedFor) = fp
        /\ LogisticMap(Zero, DerivedFor) = Zero

\* analyze_parameter_regimes has derived two fixed points for a = 2.8, the
\* second one being 9/14
C8_Witness ==
    /\ pc = "ana_iter"
    /\ Regimes[regime + 1] = Rat(14, 5)
    /\ fixed_points = <<Zero, Rat(9, 14)>>

----------------------------------------------------------------------------
(* Convergence for a in [0, 1]                                             *)

InUnit(v) == Le(Num(0, v), v) /\ Le(v, Num(1, v))

\* the iterate recorded before position p of the sweep output, for the
\* positions where it is known: the seed when nothing was discarded
KnownBefore(p) ==
    IF (p - 1) % Retained # 0 THEN bifurcation_x[p - 1]
    ELSE IF args.n_transient = 0 THEN args.x0
    ELSE bifurcation_x[p]

\* v < 2^t, decided from the exponent of the float v
FBelowPow2(v, t) == v[2] <= 0 \/ v[3] + Precision <= t

\* C9: for a in [0, 1] and x0 in [0, 1] every iterate computed by the sweep,
\* by the cobweb loop and by analyze_parameter_regimes stays in [0, 1] and
\* is no larger than the iterate before it; the 100th iterate of 0.5 under
\* a = 0.5 is below 2^-20 < 1e-6.
C9_ConvergesToZero ==
    /\ (pc \in {"bif_transient", "bif_collect"} /\ InUnit(args.x0)
            /\ InUnit(a_values[i + 1])) =>
          InUnit(x) /\ Le(x, args.x0)
    /\ (pc \in {"bif_for", "bif_transient", "bif_collect", "returned"}
            /\ InUnit(args.x0)) =>
          \A p \in 1..Len(bifurcation_x) :
              InUnit(bifurcation_a[p]) =>
                  /\ InUnit(bifurcation_x[p])
                  /\ Le(bifurcation_x[p], KnownBefore(p))
    /\ (CobwebRunning /\ InUnit(cargs.a) /\ InUnit(cargs.x0)) =>
          \A it \in 1..Completed :
              /\ InUnit(Recorded(it))
              /\ Le(Recorded(it), cobweb_y[2 * it])
    /\ (pc = "ana_iter" /\ InUnit(Regimes[regime + 1])) =>
          \A j \in 1..Len(iterations) :
              /\ InUnit(iterations[j])
              /\ j > 1 => Le(iterations[j], iterations[j - 1])
    /\ (pc = "returned" /\ args = HundredthCall) =>
          /\ Len(bifurcation_x) = HundredthCall.n_a
          /\ \A p \in 1..Len(bifurcation_x) :
                FBelowPow2(bifurcation_x[p], -20)

\* the sweep has returned the 100th iterate of 0.5 under a = 0.5, which is
\* positive
C9_Witness ==
    /\ pc = "returned"
    /\ args = HundredthCall
    /\ Len(bifurcation_x) = 20
    /\ Lt(FZero, bifurcation_x[1])

----------------------------------------------------------------------------
(* The samples of a sweep shared among workers.  After a sweep is over,    *)
(* the body of its for loop is run once more for every sample, by up to    *)
(* MaxWorkers workers in parallel.  Each worker has its own x, which it    *)
(* keeps from one sample of its share to the next, and takes its share in  *)
(* rising or falling order; the results are recorded per sample and put    *)
(* together in parameter order.                                            *)

\* sweeps whose samples are shared: twenty samples over the parameters 2.5 to
\* 4.0 of main(), and a sweep of two samples
SharedCall == [a_range |-> <<FromRat(5, 2), FInt(4)>>, n_a |-> 20,
               x0 |-> FromRat(1, 2), n_iterations |-> 3, n_transient |-> 1]
PairCall   == [a_range |-> <<FInt(3), FInt(4)>>, n_a |-> 2,
               x0 |-> FromRat(1, 2), n_iterations |-> 2, n_transient |-> 1]
SharedSweeps == {SharedCall, PairCall}

\* the sample indices of worker w, in the order it takes them: a block of
\* consecutive samples or every sched.workers-th sample
Share(w) ==
    LET n   == Len(a_values)
        W   == sched.workers
        lo  == ((w - 1) * n) \div W
        hi  == (w * n) \div W
        cnt == IF sched.blocked THEN hi - lo
               ELSE IF n > w - 1 THEN (n - w + W) \div W ELSE 0
        up  == [p \in 1..cnt |->
                   IF sched.blocked THEN lo + p - 1 ELSE (w - 1) + (p - 1) * W]
    IN  IF sched.down THEN [p \in 1..cnt |-> up[cnt + 1 - p]] ELSE up

\* the sample worker w is on
Sample(w) == Share(w)[ti[w] + 1]

\* the n iterates after v under a, oldest first
Orbit(v, a, n) == [p \in 1..n |-> Iterate(v, a, p)]

\* the samples are handed out
StartTasks(n, blocked, down) ==
    /\ pc \in {"returned", "raised"}
    /\ pc' = "tasks"
    /\ sched' = [workers |-> n, blocked |-> blocked, down |-> down]
    /\ tpc' = [w \in 1..MaxWorkers |-> IF w <= n THEN "for" ELSE "done"]
    /\ ti' = [w \in 1..MaxWorkers |-> 0]
    /\ tx' = [w \in 1..MaxWorkers |-> Zero]
    /\ tstdout' = {}
    /\ res_a' = [j \in 1..Len(a_values) |-> <<>>]
    /\ res_x' = [j \in 1..Len(a_values) |-> <<>>]
    /\ joined' = NoJoin
    /\ UNCHANGED <<self, sweepLocals, last, prev, cobwebLocals, fixedLocals,
                   plotted>>

\* faulty variant: x = x0 is done once by each worker, before its first sample
TaskForKeepsX(w) ==
    /\ pc = "tasks"
    /\ tpc[w] = "for"
    /\ ti[w] < Len(Share(w))
    /\ IF args.n_a \div 20 = 0
       THEN /\ tpc' = [tpc EXCEPT ![w] = "raised"]
            /\ UNCHANGED <<tstdout, tx>>
       ELSE /\ tstdout' = IF Sample(w) % (args.n_a \div 20) = 0
                          THEN tstdout \cup
                                   {ProgressTenths(Sample(w), args.n_a)}
                          ELSE tstdout
            /\ tx' = IF ti[w] = 0 THEN [tx EXCEPT ![w] = args.x0] ELSE tx
            /\ tpc' = [tpc EXCEPT ![w] = "transient"]
    /\ UNCHANGED <<pc, self, sweepLocals, last, prev, cobwebLocals,
                   fixedLocals, plotted, sched, ti, res_a, res_x, joined>>

\* top of the loop body for the sample of worker w: the progress indicator,
\* then x = x0
TaskFor(w) ==
    /\ pc = "tasks"
    /\ tpc[w] = "for"
    /\ ti[w] < Len(Share(w))
    /\ IF args.n_a \div 20 = 0
       THEN /\ tpc' = [tpc EXCEPT ![w] = "raised"]
            /\ UNCHANGED <<tstdout, tx>>
       ELSE /\ tstdout' = IF Sample(w) % (args.n_a \div 20) = 0
                          THEN tstdout \cup
                                   {ProgressTenths(Sample(w), args.n_a)}
                          ELSE tstdout
            /\ tx' = [tx EXCEPT ![w] = args.x0]
            /\ tpc' = [tpc EXCEPT ![w] = "transient"]
    /\ UNCHANGED <<pc, self, sweepLocals, last, prev, cobwebLocals,
                   fixedLocals, plotted, sched, ti, res_a, res_x, joined>>

\* the transient loop of worker w: n_transient iterations, nothing recorded
TaskTransient(w) ==
    /\ pc = "tasks"
    /\ tpc[w] = "transient"
    /\ tx' = [tx EXCEPT ![w] = Iterate(tx[w], a_values[Sample(w) + 1],
                                       Max(0, args.n_transient))]
    /\ tpc' = [tpc EXCEPT ![w] = "collect"]
    /\ UNCHANGED <<pc, self, sweepLocals, last, prev, cobwebLocals,
                   fixedLocals, plotted, sched, ti, tstdout, res_a, res_x,
                   joined>>

\* the collecting loop of worker w: n_iterations - n_transient iterations,
\* each recorded with its parameter; the worker goes on to its next sample
TaskCollect(w) ==
    /\ pc = "tasks"
    /\ tpc[w] = "collect"
    /\ LET a == a_values[Sample(w) + 1]
           n == Max(0, Retained)
       IN  /\ res_a' = [res_a EXCEPT ![Sample(w) + 1] = [p \in 1..n |-> a]]
           /\ res_x' = [res_x EXCEPT ![Sample(w) + 1] = Orbit(tx[w], a, n)]
           /\ tx' = [tx EXCEPT ![w] = Iterate(tx[w], a, n)]
    /\ ti' = [ti EXCEPT ![w] = ti[w] + 1]
    /\ tpc' = [tpc EXCEPT ![w] = "for"]
    /\ UNCHANGED <<pc, self, sweepLocals, last, prev, cobwebLocals,
                   fixedLocals, plotted, sched, tstdout, joined>>

\* worker w has done its share
TaskEnd(w) ==
    /\ pc = "tasks"
    /\ tpc[w] = "for"
    /\ ti[w] >= Len(Share(w))
    /\ tpc' = [tpc EXCEPT ![w] = "done"]
    /\ UNCHANGED <<pc, self, sweepLocals, last, prev, cobwebLocals,
                   fixedLocals, plotted, sched, ti, tx, tstdout, res_a, res_x,
                   joined>>

\* the concatenation of the sequences s[1], ..., s[n]
RECURSIVE Concat(_, _)
Concat(s, n) == IF n = 0 THEN <<>> ELSE Concat(s, n - 1) \o s[n]

\* the workers are over: the error of a worker is the error of the whole,
\* otherwise the per-sample results are concatenated in parameter order
Join ==
    /\ pc = "tasks"
    /\ \A w \in 1..MaxWorkers : tpc[w] \in {"done", "raised"}
    /\ pc' = "joined"
    /\ joined' = IF \E w \in 1..MaxWorkers : tpc[w] = "raised"
                 THEN [outcome |-> "ZeroDivisionError", a |-> <<>>,
                       x |-> <<>>]
                 ELSE [outcome |-> "returned",
                       a |-> Concat(res_a, Len(res_a)),
                       x |-> Concat(res_x, Len(res_x))]
    /\ UNCHANGED <<self, sweepLocals, last, prev, cobwebLocals, fixedLocals,
                   plotted, sched, tpc, ti, tx, tstdout, res_a, res_x>>

NextShared ==
    \/ \E r \in SharedSweeps : CallGenerateBifurcationData(r, 0)
    \/ BifFor
    \/ BifTransient
    \/ BifCollect
    \/ BifReturn(0)
    \/ \E n \in 1..MaxWorkers, blocked \in BOOLEAN, down \in BOOLEAN :
            StartTasks(n, blocked, down)
    \/ \E w \in 1..MaxWorkers : TaskFor(w)
    \/ \E w \in 1..MaxWorkers : TaskTransient(w)
    \/ \E w \in 1..MaxWorkers : TaskCollect(w)
    \/ \E w \in 1..MaxWorkers : TaskEnd(w)
    \/ Join

SpecShared == Init /\ [][NextShared]_vars

\* the samples whose loops a worker has completed
Finished == UNION {{Share(w)[p] : p \in 1..ti[w]} : w \in 1..sched.workers}

\* the part of the sequence s that the sweep recorded for sample j
Block(s, j) == SubSeq(s, j * Max(0, Retained) + 1, (j + 1) * Max(0, Retained))

\* C11: the values recorded for a sample depend only on its parameter, x0,
\* n_transient and n_iterations, not on what another sample left behind:
\* whichever worker runs the loops of a sample, after whichever other
\* samples and interleaved with whichever others, it records what the sweep
\* recorded for that sample; the per-sample results concatenated in
\* parameter order are the output of the sweep, and the workers raise when
\* the sweep raised.
C11_SamplesIndependent ==
    /\ (pc \in {"tasks", "joined"} /\ outcome = "returned") =>
          \A j \in Finished :
              /\ res_a[j + 1] = Block(bifurcation_a, j)
              /\ res_x[j + 1] = Block(bifurcation_x, j)
    /\ pc = "joined" =>
          /\ joined.outcome = outcome
          /\ outcome = "returned" =>
                /\ joined.a = bifurcation_a
                /\ joined.x = bifurcation_x

\* two workers have taken their shares of twenty distinct samples in falling
\* order, and the results are put together
C11_Witness ==
    /\ pc = "joined"
    /\ args = SharedCall
    /\ sched.workers = 2
    /\ sched.down
    /\ ~sched.blocked
    /\ joined.outcome = "returned"
    /\ Len(joined.x) = 40
    /\ joined.x[1] # joined.x[2]
    /\ joined.x[1] # joined.x[39]

----------------------------------------------------------------------------
(* The numeric core of finished_logistics_map.py: logistic_map, the cobweb *)
(* construction of plot_cobweb and generate_bifurcation_data, each as the  *)
(* function from its arguments to what it builds.                          *)

\* logistic_map: return a * x * (1 - x)
FinishedLogisticMap(v, a) == Mul(Mul(a, v), Sub(Num(1, v), v))

\* faulty variant: the bounds of x_range count as outside
FinishedEscapedClosed(v, x_range) == Le(v, x_range[1]) \/ Le(x_range[2], v)

\* plot_cobweb: if x_n < x_range[0] or x_n > x_range[1]
FinishedEscaped(v, x_range) == Lt(v, x_range[1]) \/ Lt(x_range[2], v)

\* plot_cobweb: the passes of for i in range(n_iter) from pass it on, on the
\* lists built so far
RECURSIVE FinishedCobwebFor(_, _, _, _, _)
FinishedCobwebFor(c, it, v, xs, ys) ==
    IF it >= c.n_iter THEN <<xs, ys>>
    ELSE LET x_next == FinishedLogisticMap(v, c.a)
             xs2    == Append(Append(xs, v), x_next)
             ys2    == Append(Append(ys, x_next), x_next)
         IN  IF FinishedEscaped(x_next, c.x_range) THEN <<xs2, ys2>>
             ELSE FinishedCobwebFor(c, it + 1, x_next, xs2, ys2)

\* plot_cobweb: cobweb_x and cobweb_y as handed to ax.plot
FinishedCobweb(c) ==
    FinishedCobwebFor(c, 0, c.x0, <<c.x0, c.x0>>, <<Zero, c.x0>>)

\* generate_bifurcation_data: x after for _ in range(n): x = logistic_map(x, a);
\* the n passes are the first n \div 2 of them followed by the others, half
\* being evaluated before the others start
RECURSIVE FinishedTransient(_, _, _)
FinishedTransient(v, a, n) ==
    IF n <= 0 THEN v
    ELSE IF n = 1 THEN FinishedLogisticMap(v, a)
    ELSE LET half == FinishedTransient(v, a, n \div 2)
         IN  IF Len(half) > 0 THEN FinishedTransient(half, a, n - n \div 2)
             ELSE half

\* generate_bifurcation_data: the values appended to bifurcation_x by the n
\* passes of the collecting loop: those of the first n \div 2 passes, then
\* those of the others, which go on from the last value appended
RECURSIVE FinishedCollect(_, _, _)
FinishedCollect(v, a, n) ==
    IF n <= 0 THEN <<>>
    ELSE IF n = 1 THEN <<FinishedLogisticMap(v, a)>>
    ELSE LET first == FinishedCollect(v, a, n \div 2)
         IN  first \o FinishedCollect(first[Len(first)], a, n - n \div 2)

\* generate_bifurcation_data: the two lists after the first n samples, each
\* sample having appended its parameter and its values after those of the
\* samples before it
FinishedFor(r, samples, n) ==
    LET kept == [j \in 1..n |->
                    FinishedCollect(
                        FinishedTransient(r.x0, samples[j], r.n_transient),
                        samples[j], r.n_iterations - r.n_transient)]
        R    == IF n = 0 THEN 0 ELSE Len(kept[1])
    IN  [a |-> [p \in 1..(n * R) |-> samples[(p - 1) \div R + 1]],
         x |-> [p \in 1..(n * R) |->
                   kept[(p - 1) \div R + 1][((p - 1) % R) + 1]]]

\* generate_bifurcation_data: how the call ends and what it returns; the
\* first pass of the loop raises when n_a // 20 is 0
FinishedGenerateBifurcationData(r) ==
    LET samples == Linspace(r.a_range[1], r.a_range[2], r.n_a)
        lists   == FinishedFor(r, samples, Len(samples))
    IN  IF Len(samples) > 0 /\ r.n_a \div 20 = 0
        THEN [outcome |-> "ZeroDivisionError", a |-> <<>>, x |-> <<>>]
        ELSE [outcome |-> "returned", a |-> lists.a, x |-> lists.x]

\* C12: main.py and finished_logistics_map.py have the same numeric core:
\* every value logistic_map of main.py returned is the value logistic_map of
\* finished_logistics_map.py returns for the same arguments, the cobweb lists
\* built by plot_cobweb are the same, and generate_bifurcation_data ends the
\* same way (returning, or raising ZeroDivisionError) with the same two
\* sequences.
C12_SameCore ==
    /\ SweepOver =>
          [outcome |-> outcome, a |-> bifurcation_a, x |-> bifurcation_x]
              = FinishedGenerateBifurcationData(args)
    /\ CobwebRunning =>
          \A it \in 1..Completed :
              Recorded(it) = FinishedLogisticMap(cobweb_x[2 * it + 1], cargs.a)
    /\ CobwebOver =>
          <<cobweb_x, cobweb_y>> = FinishedCobweb(cargs)
    /\ pc = "ana_iter" =>
          \A j \in 2..Len(iterations) :
              iterations[j] =
                  FinishedLogisticMap(iterations[j - 1],
                                      FromRat(Regimes[regime + 1][1],
                                              Regimes[regime + 1][2]))

\* a cobweb that stopped on leaving x_range, before its n_iter passes were
\* done, is ready to be plotted
C12_Witness ==
    /\ pc = "cob_plot"
    /\ cargs.n_iter = 2
    /\ Completed = 1
    /\ FinishedCobweb(cargs) = <<cobweb_x, cobweb_y>>
    /\ Len(FinishedCobweb(cargs)[1]) = 4

----------------------------------------------------------------------------
(* The unit interval under the map for a in [0, 4]                         *)

\* 0 <= v <= 4
InFour(v) == Le(Num(0, v), v) /\ Le(v, Num(4, v))

\* x_range = (0, 1)
OnUnit(x_range) == x_range[1] = Num(0, x_range[1])
                       /\ x_range[2] = Num(1, x_range[2])

\* C13: for a in [0, 4] and x in [0, 1], logistic_map(x, a) is in [0, 1],
\* for every x and a that the cobweb loop, the sweep and
\* analyze_parameter_regimes are about to apply the map to; and a cobweb
\* with x_range = (0, 1), x0 in [0, 1] and a in [0, 4] never stops early: it
\* ends with exactly 2 + 2 * n_iter points, none of its iterates outside.
C13_UnitInterval ==
    /\ (pc = "cob_for" /\ ci < cargs.n_iter /\ InFour(cargs.a)
            /\ InUnit(x_n)) =>
          InUnit(LogisticMap(x_n, cargs.a))
    /\ ((\/ pc = "bif_transient" /\ k < args.n_transient
         \/ pc = "bif_collect" /\ k < Retained)
            /\ InFour(a_values[i + 1]) /\ InUnit(x)) =>
          InUnit(LogisticMap(x, a_values[i + 1]))
    /\ (pc = "ana_iter" /\ i < AnalysisIterations
            /\ InFour(Regimes[regime + 1]) /\ InUnit(x)) =>
          InUnit(LogisticMap(x, FromRat(Regimes[regime + 1][1],
                                        Regimes[regime + 1][2])))
    /\ (CobwebRunning /\ OnUnit(cargs.x_range) /\ InUnit(cargs.x0)
            /\ InFour(cargs.a)) =>
          /\ \A it \in 1..Completed :
                /\ InUnit(Recorded(it))
                /\ ~Escaped(Recorded(it), cargs.x_range)
          /\ CobwebOver =>
                /\ Completed = cargs.n_iter
                /\ Points = 2 + 2 * cargs.n_iter
                /\ Len(cobweb_y) = 2 + 2 * cargs.n_iter

\* the cobweb of a = 4.0 from 0.1 on [0, 1] is complete after its eight
\* iterations, with iterates in both halves of the interval
C13_Witness ==
    /\ pc = "cob_plot"
    /\ cargs = FullCall
    /\ Points = 18
    /\ \E it \in 1..8 : Lt(FromRat(1, 2), Recorded(it))
    /\ \E it \in 1..8 : Lt(Recorded(it), FromRat(1, 2))
    /\ Lt(FZero, Recorded(8))

====
